---- MODULE Spec2Model ----
(***************************************************************************)
(* RSS/Atom aggregator (scripts/aggregate_rss.js).                         *)
(*                                                                         *)
(* Strings are sequences of characters; a character is a one-character     *)
(* string, and a non-ASCII character is written by its code point          *)
(* ("U+011B" is e-caron).  Instants are whole years: the instant of year y *)
(* is the string y-01-01T00:00:00.000Z, and getTime counts years since     *)
(* 1970.                                                                   *)
(***************************************************************************)
EXTENDS Integers, Sequences, FiniteSets, TLC

VARIABLES
  pc,        \* where main is: "start", "aggregating", "done", "failed"
  exitCode,  \* process.exitCode
  sources,   \* how loadSources ended, and the lists main reads from its result
  bucket,    \* each aggregateBucket call: its loop position, pool and result
  files,     \* the writeJson calls made so far, in order, each with its outcome
  clock,     \* the system clock
  tIn, tOnce, tTwice, tStage,   \* normalizeText applied once and twice to tIn
  kwOut, keptOut                \* matchesKeywords(tIn); normalizeAndFilter keeps tIn

mainVars == <<pc, exitCode, sources, bucket, files, clock>>
textVars == <<tIn, tOnce, tTwice, tStage, kwOut, keptOut>>
vars == <<pc, exitCode, sources, bucket, files, clock,
          tIn, tOnce, tTwice, tStage, kwOut, keptOut>>

(***************************************************************************)
(* String primitives of the JavaScript runtime                             *)
(***************************************************************************)
UpperChars ==
  <<"A","B","C","D","E","F","G","H","I","J","K","L","M","N","O","P","Q","R",
    "S","T","U","V","W","X","Y","Z",
    "U+011A","U+010C","U+00DD","U+016E","U+0158","U+00C1","U+00CD">>

LowerChars ==
  <<"a","b","c","d","e","f","g","h","i","j","k","l","m","n","o","p","q","r",
    "s","t","u","v","w","x","y","z",
    "U+011B","U+010D","U+00FD","U+016F","U+0159","U+00E1","U+00ED">>

Whitespace == {" ", "\n", "\t"}

UpperSet == { UpperChars[i] : i \in 1..Len(UpperChars) }

LowerOf(c) ==
  IF c \in UpperSet
  THEN LowerChars[CHOOSE i \in 1..Len(UpperChars) : UpperChars[i] = c]
  ELSE c

toLowerCase(s) == SubSeq([ i \in 1..Len(s) |-> LowerOf(s[i]) ], 1, Len(s))

startsWith(s, p) == Len(s) >= Len(p) /\ SubSeq(s, 1, Len(p)) = p

endsWith(s, p) == Len(s) >= Len(p) /\ SubSeq(s, Len(s) - Len(p) + 1, Len(s)) = p

\* String.prototype.includes
includes(t, k) ==
  \E i \in 0..(Len(t) - Len(k)) :
    k = <<>> \/ (t[i + 1] = k[1] /\ SubSeq(t, i + 1, i + Len(k)) = k)

\* s.replace(/pat/g, rep) for a literal pattern: leftmost, non-overlapping
RECURSIVE replaceAll(_, _, _)
replaceAll(s, pat, rep) ==
  IF Len(s) < Len(pat) THEN s
  ELSE IF SubSeq(s, 1, Len(pat)) = pat
       THEN rep \o replaceAll(SubSeq(s, Len(pat) + 1, Len(s)), pat, rep)
       ELSE <<Head(s)>> \o replaceAll(Tail(s), pat, rep)

RECURSIVE trimStart(_)
trimStart(s) ==
  IF s # <<>> /\ Head(s) \in Whitespace THEN trimStart(Tail(s)) ELSE s

RECURSIVE trimEnd(_)
trimEnd(s) ==
  IF s # <<>> /\ s[Len(s)] \in Whitespace
  THEN trimEnd(SubSeq(s, 1, Len(s) - 1)) ELSE s

trim(s) == trimEnd(trimStart(s))

\* s.replace(/\s+/g, " ")
RECURSIVE collapseWhitespace(_)
collapseWhitespace(s) ==
  IF s = <<>> THEN <<>>
  ELSE IF Head(s) \in Whitespace
       THEN <<" ">> \o collapseWhitespace(trimStart(s))
       ELSE <<Head(s)>> \o collapseWhitespace(Tail(s))

\* index of the first c in s at or after position i, 0 when there is none
RECURSIVE indexOfFrom(_, _, _)
indexOfFrom(s, c, i) ==
  IF i > Len(s) THEN 0
  ELSE IF s[i] = c THEN i ELSE indexOfFrom(s, c, i + 1)

(***************************************************************************)
(* Text Normalizer                                                         *)
(***************************************************************************)
CdataOpen == <<"<","!","[","C","D","A","T","A","[">>
CdataClose == <<"]","]",">">>

stripCdata(s) ==
  IF s = <<>> THEN <<>>
  ELSE LET a == IF startsWith(s, CdataOpen)
                THEN SubSeq(s, Len(CdataOpen) + 1, Len(s)) ELSE s
       IN  IF endsWith(a, CdataClose)
           THEN SubSeq(a, 1, Len(a) - Len(CdataClose)) ELSE a

decodeEntities(s) ==
  IF s = <<>> THEN <<>>
  ELSE LET s1 == replaceAll(s,  <<"&","a","m","p",";">>, <<"&">>)
           s2 == replaceAll(s1, <<"&","l","t",";">>, <<"<">>)
           s3 == replaceAll(s2, <<"&","g","t",";">>, <<">">>)
           s4 == replaceAll(s3, <<"&","q","u","o","t",";">>, <<"\"">>)
           s5 == replaceAll(s4, <<"&","#","3","9",";">>, <<"'">>)
           s6 == replaceAll(s5, <<"&","#","x","2","7",";">>, <<"'">>)
       IN  replaceAll(s6, <<"&","#","x","2","F",";">>, <<"/">>)

\* s.replace(/<[^>]*>/g, " ")
RECURSIVE stripTags(_)
stripTags(s) ==
  LET lt == indexOfFrom(s, "<", 1)
      gt == IF lt = 0 THEN 0 ELSE indexOfFrom(s, ">", lt + 1)
  IN  IF lt = 0 \/ gt = 0 THEN s
      ELSE SubSeq(s, 1, lt - 1) \o <<" ">>
             \o stripTags(SubSeq(s, gt + 1, Len(s)))

normalizeText(s) ==
  trim(collapseWhitespace(stripTags(decodeEntities(stripCdata(s)))))

(***************************************************************************)
(* URLs and dates                                                          *)
(***************************************************************************)
Digits == <<"0","1","2","3","4","5","6","7","8","9">>

isDigit(c) == \E i \in 1..10 : Digits[i] = c

digitValue(c) == (CHOOSE i \in 1..10 : Digits[i] = c) - 1

IsoSuffix ==
  <<"-","0","1","-","0","1","T","0","0",":","0","0",":","0","0",".","0","0","0","Z">>

\* the not-a-number value of getTime and Date.parse
NaN == -1000000

\* new Date(raw).getTime(), Date.parse(raw): years since 1970, or NaN
dateParse(raw) ==
  IF /\ Len(raw) >= 4
     /\ \A i \in 1..4 : isDigit(raw[i])
     /\ (Len(raw) = 4 \/ SubSeq(raw, 5, Len(raw)) = IsoSuffix)
  THEN digitValue(raw[1]) * 1000 + digitValue(raw[2]) * 100
         + digitValue(raw[3]) * 10 + digitValue(raw[4]) - 1970
  ELSE NaN

\* Date.prototype.toISOString of the instant t
toISOString(t) ==
  LET y == t + 1970
  IN  << Digits[((y \div 1000) % 10) + 1], Digits[((y \div 100) % 10) + 1],
         Digits[((y \div 10) % 10) + 1], Digits[(y % 10) + 1] >> \o IsoSuffix

parseDateToIso(raw) ==
  IF raw = <<>> THEN <<>>
  ELSE LET d == dateParse(raw)
       IN  IF d = NaN THEN <<>> ELSE toISOString(d)

\* /^https?:\/\//i.test(s)
isHttpUrl(s) ==
  LET l == toLowerCase(s)
  IN  \/ startsWith(l, <<"h","t","t","p",":","/","/">>)
      \/ startsWith(l, <<"h","t","t","p","s",":","/","/">>)

safeUrl(u) ==
  IF u = <<>> THEN <<>>
  ELSE LET s == trim(u)
       IN  IF ~isHttpUrl(s) THEN <<>> ELSE s

\* new URL(u): the scheme is what precedes the first ":", the host what
\* follows "//" up to the next "/"; http and https need a host
urlScheme(u) ==
  LET c == indexOfFrom(u, ":", 1)
  IN  IF c <= 1 THEN <<>> ELSE toLowerCase(SubSeq(u, 1, c - 1))

urlHost(u) ==
  LET c    == indexOfFrom(u, ":", 1)
      rest == SubSeq(u, c + 1, Len(u))
  IN  IF ~startsWith(rest, <<"/","/">>) THEN <<>>
      ELSE LET h == SubSeq(rest, 3, Len(rest))
               e == indexOfFrom(h, "/", 1)
           IN  toLowerCase(IF e = 0 THEN h ELSE SubSeq(h, 1, e - 1))

urlIsSpecial(u) ==
  urlScheme(u) \in { <<"h","t","t","p">>, <<"h","t","t","p","s">> }

urlParses(u) ==
  /\ urlScheme(u) # <<>>
  /\ \A i \in 1..Len(urlScheme(u)) :
        \E j \in 1..26 : LowerChars[j] = urlScheme(u)[i]
  /\ urlIsSpecial(u) => urlHost(u) # <<>>

\* new URL(feedUrl).hostname.replace(/^www\./, "")
hostnameWithoutWww(u) ==
  LET h == urlHost(u)
  IN  IF startsWith(h, <<"w","w","w",".">>) THEN SubSeq(h, 5, Len(h)) ELSE h

(***************************************************************************)
(* Relevance Filter                                                        *)
(***************************************************************************)
BRAND_KEYWORDS ==
  << <<"t","e","m","u">>,
     <<"s","h","e","i","n">>,
     <<"a","l","i","e","x","p","r","e","s","s">>,
     <<"a","l","i"," ","e","x","p","r","e","s","s">>,
     <<"a","l","i","b","a","b","a">>,
     <<"w","i","s","h">> >>

CONTEXT_KEYWORDS ==
  << <<"m","a","r","k","e","t","p","l","a","c","e">>,
     <<"o","n","l","i","n","e"," ","m","a","r","k","e","t","p","l","a","c","e">>,
     <<"e","-","s","h","o","p">>,
     <<"e","s","h","o","p">>,
     <<"o","n","l","i","n","e"," ","s","h","o","p">>,
     <<"o","n","l","i","n","e"," ","s","h","o","p","p","i","n","g">>,
     <<"u","l","t","r","a","-","f","a","s","t"," ","f","a","s","h","i","o","n">>,
     <<"f","a","s","t"," ","f","a","s","h","i","o","n">> >>

TOPIC_KEYWORDS ==
  << <<"p","a","d","U+011B","l","e","k">>,
     <<"p","a","d","U+011B","l","k","y">>,
     <<"c","o","u","n","t","e","r","f","e","i","t">>,
     <<"p","r","o","d","u","c","t"," ","s","a","f","e","t","y">>,
     <<"u","n","s","a","f","e">>,
     <<"b","e","z","p","e","U+010D","n","o","s","t"," ","v","U+00FD","r","o","b","k","U+016F">>,
     <<"n","e","b","e","z","p","e","U+010D","n","U+00FD"," ","v","U+00FD","r","o","b","e","k">>,
     <<"c","o","n","s","u","m","e","r"," ","p","r","o","t","e","c","t","i","o","n">>,
     <<"o","c","h","r","a","n","a"," ","s","p","o","t","U+0159","e","b","i","t","e","l","e">>,
     <<"t","o","x","i","c">>,
     <<"t","o","x","i","c","k","U+00FD">>,
     <<"h","a","z","a","r","d","o","u","s">>,
     <<"r","e","c","a","l","l">>,
     <<"s","t","a","h","o","v","U+00E1","n","U+00ED"," ","z"," ","t","r","h","u">> >>

\* Array.prototype.some over a keyword list
someIncluded(t, keywords) ==
  \E i \in 1..Len(keywords) : includes(t, keywords[i])

\* a mutant: a topic term or a context term alone is enough
matchesKeywordsEither(text) ==
  LET t == toLowerCase(text)
  IN  \/ someIncluded(t, BRAND_KEYWORDS)
      \/ someIncluded(t, CONTEXT_KEYWORDS)
      \/ \E i \in 1..Len(TOPIC_KEYWORDS) :
            includes(t, toLowerCase(TOPIC_KEYWORDS[i]))

matchesKeywords(text) ==
  LET t            == toLowerCase(text)
      brandMatch   == someIncluded(t, BRAND_KEYWORDS)
      contextMatch == someIncluded(t, CONTEXT_KEYWORDS)
      topicMatch   == \E i \in 1..Len(TOPIC_KEYWORDS) :
                         includes(t, toLowerCase(TOPIC_KEYWORDS[i]))
  IN  IF brandMatch THEN TRUE ELSE contextMatch /\ topicMatch

(***************************************************************************)
(* Feed Extractor.  A feed document is kept as what the extractor's        *)
(* patterns find in it: hasRss and hasAtom are the two signature tests,    *)
(* feedTitle is the first match of the feed-level title patterns, item and *)
(* entry are the blocks of each tag, and a block holds the first match of  *)
(* each field's patterns ("" when none matches).                           *)
(***************************************************************************)
extractAllBlocks(xml, tag) == xml[tag]

firstMatch(block, field) == block[field]

UnknownSource ==
  <<"N","e","z","n","U+00E1","m","U+00FD"," ","z","d","r","o","j">>

guessSourceName(feedXml, feedUrl) ==
  LET title == normalizeText(firstMatch(feedXml, "feedTitle"))
  IN  IF title # <<>> THEN title
      ELSE IF urlParses(feedUrl) THEN hostnameWithoutWww(feedUrl)
      ELSE UnknownSource

rssItem(block, sourceName) ==
  LET title   == normalizeText(firstMatch(block, "title"))
      linkRaw == normalizeText(firstMatch(block, "link"))
      link    == safeUrl(linkRaw)
      pubDate == normalizeText(firstMatch(block, "date"))
      desc    == normalizeText(firstMatch(block, "body"))
  IN  [ title       |-> title,
        source      |-> sourceName,
        url         |-> link,
        publishedAt |-> parseDateToIso(pubDate),
        search      |-> trim(title \o <<" ">> \o desc) ]

\* itemBlocks.map
mapRssItems(blocks, sourceName) ==
  SubSeq([ i \in 1..Len(blocks) |-> rssItem(blocks[i], sourceName) ],
         1, Len(blocks))

parseRssItems(feedXml, feedUrl) ==
  mapRssItems(extractAllBlocks(feedXml, "item"),
              guessSourceName(feedXml, feedUrl))

atomEntry(block, sourceName) ==
  LET title     == normalizeText(firstMatch(block, "title"))
      hrefRaw   == firstMatch(block, "link")
      href      == safeUrl(hrefRaw)
      published == normalizeText(firstMatch(block, "date"))
      summary   == normalizeText(firstMatch(block, "body"))
  IN  [ title       |-> title,
        source      |-> sourceName,
        url         |-> href,
        publishedAt |-> parseDateToIso(published),
        search      |-> trim(title \o <<" ">> \o summary) ]

\* entryBlocks.map
mapAtomEntries(blocks, sourceName) ==
  SubSeq([ i \in 1..Len(blocks) |-> atomEntry(blocks[i], sourceName) ],
         1, Len(blocks))

parseAtomEntries(feedXml, feedUrl) ==
  mapAtomEntries(extractAllBlocks(feedXml, "entry"),
                 guessSourceName(feedXml, feedUrl))

parseFeed(feedXml, feedUrl) ==
  IF feedXml.hasRss THEN parseRssItems(feedXml, feedUrl)
  ELSE IF feedXml.hasAtom THEN parseAtomEntries(feedXml, feedUrl)
  ELSE LET rss  == parseRssItems(feedXml, feedUrl)
           atom == parseAtomEntries(feedXml, feedUrl)
       IN  IF Len(rss) >= Len(atom) THEN rss ELSE atom

(***************************************************************************)
(* Aggregator: filter, deduplicate, rank, cap                              *)
(***************************************************************************)
MAX_ITEMS_PER_BUCKET == 80

\* x._search || x.title || ""
searchText(x) == IF x.search # <<>> THEN x.search ELSE x.title

isUsable(x) == x.url # <<>> /\ x.title # <<>>

filterItems(items) ==
  SelectSeq(SelectSeq(items, isUsable),
            LAMBDA x : matchesKeywords(searchText(x)))

\* new Date() at the time the k-th item is pushed: the clock reads now, and
\* now + 1 once more than tickAfter items have been pushed (0: it never ticks)
clockReading(now, tickAfter, k) ==
  IF tickAfter > 0 /\ k > tickAfter THEN now + 1 ELSE now

\* 1, 2, ..., n
indices(n) == SubSeq([i \in 1..n |-> i], 1, n)

\* the Set `seen` when the loop reaches filtered[i]
seenBefore(filtered, i) == { filtered[j].url : j \in 1..(i - 1) }

\* the item pushed k-th, made from the candidate x
pushed(x, k, now, tickAfter) ==
  [ title       |-> x.title,
    source      |-> x.source,
    url         |-> x.url,
    publishedAt |-> IF x.publishedAt # <<>> THEN x.publishedAt
                    ELSE toISOString(clockReading(now, tickAfter, k)) ]

\* a mutant: an item without a date is dropped
dedupeDropUndated(filtered, now, tickAfter) ==
  LET kept == SelectSeq(indices(Len(filtered)),
                LAMBDA i : /\ filtered[i].url \notin seenBefore(filtered, i)
                           /\ filtered[i].publishedAt # <<>>)
  IN  SubSeq([ k \in 1..Len(kept) |->
                 pushed(filtered[kept[k]], k, now, tickAfter) ], 1, Len(kept))

\* a mutant: the last item with a url is kept instead of the first
dedupeKeepLast(filtered, now, tickAfter) ==
  LET kept == SelectSeq(indices(Len(filtered)),
                LAMBDA i : \A j \in (i + 1)..Len(filtered) :
                              filtered[j].url # filtered[i].url)
  IN  SubSeq([ k \in 1..Len(kept) |->
                 pushed(filtered[kept[k]], k, now, tickAfter) ], 1, Len(kept))

\* the loop over filtered: a candidate is pushed unless its url is in seen
dedupe(filtered, now, tickAfter) ==
  LET kept == SelectSeq(indices(Len(filtered)),
                LAMBDA i : filtered[i].url \notin seenBefore(filtered, i))
  IN  SubSeq([ k \in 1..Len(kept) |->
                 pushed(filtered[kept[k]], k, now, tickAfter) ], 1, Len(kept))

\* Number.isNaN(t) ? 0 : t, for t = Date.parse(x.publishedAt || "")
sortKey(x) ==
  LET t == dateParse(x.publishedAt)
  IN  IF t = NaN THEN 0 ELSE t

\* the comparator of deduped.sort: negative when a goes before b
compareItems(a, b) == sortKey(b) - sortKey(a)

\* a mutant: the items are left in pool order
sortItemsNot(deduped) == deduped

\* deduped.sort(comparator)
sortItems(deduped) ==
  SortSeq(deduped, LAMBDA a, b : compareItems(a, b) < 0)

slice(a, from, to) ==
  SubSeq(a, from + 1, IF to < Len(a) THEN to ELSE Len(a))

\* a mutant: the cap is applied before the sort
normalizeAndFilterCapFirst(items, now, tickAfter) ==
  sortItems(slice(dedupe(filterItems(items), now, tickAfter),
                  0, MAX_ITEMS_PER_BUCKET))

normalizeAndFilter(items, now, tickAfter) ==
  LET filtered == filterItems(items)
      deduped  == dedupe(filtered, now, tickAfter)
  IN  slice(sortItems(deduped), 0, MAX_ITEMS_PER_BUCKET)

(***************************************************************************)
(* The feeds the run can meet                                              *)
(***************************************************************************)
Block(t, l, d, b) == [ title |-> t, link |-> l, date |-> d, body |-> b ]

UrlA == <<"h","t","t","p","s",":","/","/","a",".","c","z","/","r","s","s">>
UrlB == <<"h","t","t","p",":","/","/","w","w","w",".","b",".","c","o","m","/","a","t","o","m">>
UrlG == <<"h","t","t","p","s",":","/","/","g",".","o","r","g","/","f">>
UrlD == <<"d","a","t","a",":",",","d">>

\* an RSS feed titled "A &amp; Z"
FeedA ==
  [ hasRss |-> TRUE, hasAtom |-> FALSE,
    feedTitle |-> <<"A"," ","&","a","m","p",";"," ","Z">>,
    entry |-> <<>>,
    item |-> <<
      \* a brand term, a padded link, a CDATA title
      Block(<<"<","!","[","C","D","A","T","A","[","T","e","m","u","]","]",">">>,
            <<" ","h","t","t","p","s",":","/","/","x",".","c","z","/","1"," ">>,
            <<"2","0","2","1">>, <<>>),
      \* a context term only
      Block(<<"f","a","s","t"," ","f","a","s","h","i","o","n">>,
            <<"h","t","t","p","s",":","/","/","x",".","c","z","/","2">>,
            <<"2","0","3","0">>, <<"n","e","w","s">>),
      \* a topic term and a context term, no parseable date
      Block(<<"T","o","x","i","c">>,
            <<"h","t","t","p","s",":","/","/","x",".","c","z","/","3">>,
            <<"n","o","t","-","a","-","d","a","t","e">>, <<"E","-","s","h","o","p">>),
      \* no title
      Block(<<>>,
            <<"h","t","t","p","s",":","/","/","x",".","c","z","/","4">>,
            <<"2","0","2","2">>, <<"t","e","m","u">>),
      \* a relative link
      Block(<<"S","h","e","i","n">>, <<"/","r","e","l","/","5">>,
            <<"2","0","2","2">>, <<>>),
      \* the first item's link again, with a later date
      Block(<<"W","i","s","h"," ","2">>,
            <<"h","t","t","p","s",":","/","/","x",".","c","z","/","1">>,
            <<"2","0","2","3">>, <<>>),
      \* a topic term only
      Block(<<"r","e","c","a","l","l">>,
            <<"h","t","t","p","s",":","/","/","x",".","c","z","/","7">>,
            <<"2","0","2","2">>, <<>>),
      \* no date at all
      Block(<<"A","l","i","b","a","b","a">>,
            <<"h","t","t","p","s",":","/","/","x",".","c","z","/","8">>,
            <<>>, <<>>) >> ]

\* an Atom feed without a title
FeedB ==
  [ hasRss |-> FALSE, hasAtom |-> TRUE,
    feedTitle |-> <<>>,
    item |-> <<>>,
    entry |-> <<
      \* the link of FeedA's first item, with a later date
      Block(<<"A","l","i","E","x","p","r","e","s","s">>,
            <<"h","t","t","p","s",":","/","/","x",".","c","z","/","1">>,
            <<"2","0","2","5","-","0","1","-","0","1","T","0","0",":","0","0",":",
              "0","0",".","0","0","0","Z">>, <<>>),
      \* an upper-case topic term with a context term in the summary
      Block(<<"P","A","D","U+011A","L","E","K">>,
            <<"h","t","t","p","s",":","/","/","y",".","c","o","m","/","2">>,
            <<"2","0","2","0">>, <<"M","a","r","k","e","t","p","l","a","c","e">>),
      \* not an http link
      Block(<<"s","h","e","i","n">>,
            <<"f","t","p",":","/","/","y",".","c","o","m","/","3">>,
            <<"2","0","2","4">>, <<>>) >> ]

\* a document with neither signature, a blank title, served from a data: URL
FeedD ==
  [ hasRss |-> FALSE, hasAtom |-> FALSE,
    feedTitle |-> <<" ">>,
    entry |-> <<>>,
    item |-> <<
      \* an upper-case scheme, dated before 1970
      Block(<<"t","e","m","u">>,
            <<"H","T","T","P","S",":","/","/","d",".","i","o","/","1">>,
            <<"1","9","6","9">>, <<>>) >> ]

\* a long RSS feed: BigFeedLen relevant items with distinct links, dated
\* 1990..2029 in no order, every tenth one without a parseable date
BigFeedLen == 85

FeedG ==
  [ hasRss |-> TRUE, hasAtom |-> FALSE,
    feedTitle |-> <<"G">>,
    entry |-> <<>>,
    item |-> [ i \in 1..BigFeedLen |->
      Block(<<"t","e","m","u">>,
            <<"h","t","t","p","s",":","/","/","g",".","o","r","g","/",
              Digits[(i \div 10) + 1], Digits[(i % 10) + 1]>>,
            IF i % 10 = 0 THEN <<"n","/","a">>
            ELSE <<Digits[((1990 + ((i * 7) % 40)) \div 1000) + 1],
                   Digits[(((1990 + ((i * 7) % 40)) \div 100) % 10) + 1],
                   Digits[(((1990 + ((i * 7) % 40)) \div 10) % 10) + 1],
                   Digits[((1990 + ((i * 7) % 40)) % 10) + 1]>>,
            <<>>) ] ]

FeedUrls == {UrlA, UrlB, UrlG, UrlD}

\* fetch rejects at once unless the URL parses and its scheme is one it serves
canFetch(url) ==
  /\ urlParses(url)
  /\ urlScheme(url) \in { <<"h","t","t","p">>, <<"h","t","t","p","s">>,
                          <<"d","a","t","a">> }
  /\ url \in FeedUrls

(***************************************************************************)
(* The source configuration: an entry of a list is a JSON value            *)
(***************************************************************************)
Entry(type, value, rss, url, topic) ==
  [ type |-> type, value |-> value, rss |-> rss, url |-> url, topic |-> topic ]

StringA   == Entry("string", UrlA, <<>>, <<>>, <<>>)
ObjectB   == Entry("object", <<>>, UrlB, <<>>, <<"c","z">>)
UrlOnlyA  == Entry("object", <<>>, <<>>, UrlA, <<>>)
EmptyStr  == Entry("string", <<>>, <<>>, <<>>, <<>>)
NullEntry == Entry("null", <<>>, <<>>, <<>>, <<>>)
StringG   == Entry("string", UrlG, <<>>, <<>>, <<>>)
StringD   == Entry("string", UrlD, <<>>, <<>>, <<>>)

MaxSources == 2

SmallEntries == {StringA, ObjectB, UrlOnlyA, EmptyStr, NullEntry}

CzLists ==
  UNION { [1..n -> SmallEntries] : n \in 0..MaxSources }
    \cup { <<StringD>>, <<StringD, StringA>> }

IntlLists == { <<>>, <<ObjectB>>, <<NullEntry, StringA>> }

\* the lists that hold the long feed
BigLists ==
  { <<StringG>>, <<StringA, StringG>>, <<StringG, ObjectB>>, <<StringG, StringG>> }

\* the outcomes of loadSources, and what main makes of sources.cz/sources.intl
Configs ==
  { [ load |-> l, cz |-> <<>>, intl |-> <<>> ] :
      l \in {"unreadable", "unparsable", "null"} }
    \cup
  { [ load |-> "ok", cz |-> c, intl |-> i ] : c \in CzLists, i \in IntlLists }
    \cup
  { [ load |-> "ok", cz |-> c, intl |-> <<>> ] : c \in BigLists }

(***************************************************************************)
(* The aggregation run                                                     *)
(***************************************************************************)
Buckets == {"cz", "intl"}

MainIdle ==
  /\ pc = "start"
  /\ exitCode = 0
  /\ sources = [load |-> "none", cz |-> <<>>, intl |-> <<>>]
  /\ bucket = [b \in Buckets |->
                 [ status |-> "idle", pending |-> 0, all |-> <<>>, out |-> <<>>,
                   fetched |-> <<>>, skipped |-> {}, failed |-> {},
                   now |-> 0, tickAfter |-> 0 ]]
  /\ files = <<>>
  /\ clock = 2024 - 1970

(***************************************************************************)
(* aggregateBucket and main.  An async function runs from one await to the *)
(* next without interruption: main runs up to the first fetch of each      *)
(* bucket, a bucket runs from the settling of a fetch to its next fetch or *)
(* to its return, and main goes on once both buckets have returned.        *)
(***************************************************************************)
MaxTick == 1

\* a mutant: the url is read from the field `url`
entryUrlFromUrlField(item) ==
  IF item.type = "string" THEN item.value
  ELSE IF item.type = "object" THEN item.url ELSE <<>>

\* typeof item === "string" ? item : item?.rss
entryUrl(item) ==
  IF item.type = "string" THEN item.value
  ELSE IF item.type = "object" THEN item.rss ELSE <<>>

\* the index of the first entry at or after i that has a url, Len(list) + 1
\* when there is none: the entries before it are skipped with a warning
RECURSIVE nextFetch(_, _)
nextFetch(list, i) ==
  IF i > Len(list) THEN i
  ELSE IF entryUrl(list[i]) # <<>> THEN i ELSE nextFetch(list, i + 1)

\* a mutant: a failed fetch ends the loop
indexAfterFailureBreak(list, i) == Len(list) + 1

\* the catch block logs and the loop goes on with the next entry
indexAfterFailure(list, i) == i + 1

\* the loop of aggregateBucket from entry i on, up to the next fetch or to
\* the return of normalizeAndFilter(all)
aggregateBucketFrom(st, list, i, now, tickAfter) ==
  LET j == nextFetch(list, i)
  IN  IF j > Len(list)
      THEN [ st EXCEPT !.status = "done", !.pending = 0,
                       !.skipped = @ \cup (i..Len(list)),
                       !.out = normalizeAndFilter(st.all, now, tickAfter),
                       !.now = now, !.tickAfter = tickAfter ]
      ELSE [ st EXCEPT !.status = "fetching", !.pending = j,
                       !.skipped = @ \cup (i..(j - 1)),
                       !.fetched = Append(@, [ index |-> j,
                                               url   |-> entryUrl(list[j]) ]) ]

BucketIdle ==
  [ status |-> "idle", pending |-> 0, all |-> <<>>, out |-> <<>>,
    fetched |-> <<>>, skipped |-> {}, failed |-> {},
    now |-> 0, tickAfter |-> 0 ]

\* a mutant: one empty list is enough to give up
noSourcesEither(cz, intl) == Len(cz) = 0 \/ Len(intl) = 0

\* cz.length === 0 && intl.length === 0
noSources(cz, intl) == Len(cz) = 0 /\ Len(intl) = 0

\* main up to its first await: ensureDirs, loadSources, the two checks, and
\* the two aggregateBucket calls up to their first fetch
MainStart ==
  /\ pc = "start"
  /\ tStage = "idle"
  /\ \E cfg \in Configs :
       /\ sources' = cfg
       /\ IF cfg.load \in {"unreadable", "unparsable"}
          THEN \* loadSources throws: reported, exitCode 1, return
               /\ exitCode' = 1
               /\ pc' = "failed"
               /\ UNCHANGED bucket
          ELSE IF cfg.load = "null"
          THEN \* sources.cz throws a TypeError: the rejection reaches main().catch
               /\ exitCode' = 1
               /\ pc' = "failed"
               /\ UNCHANGED bucket
          ELSE IF noSources(cfg.cz, cfg.intl)
          THEN /\ exitCode' = 1
               /\ pc' = "failed"
               /\ UNCHANGED bucket
          ELSE /\ bucket' = [ b \in Buckets |->
                    aggregateBucketFrom(BucketIdle, cfg[b], 1, clock, 0) ]
               /\ pc' = "aggregating"
               /\ UNCHANGED exitCode
  /\ UNCHANGED <<files, clock>>
  /\ UNCHANGED textVars

\* what parseFeed(xml, url) returns for each feed the run can fetch
ParsedA == parseFeed(FeedA, UrlA)
ParsedB == parseFeed(FeedB, UrlB)
ParsedG == parseFeed(FeedG, UrlG)
ParsedD == parseFeed(FeedD, UrlD)

parsedFeedAt(url) ==
  CASE url = UrlA -> ParsedA
    [] url = UrlB -> ParsedB
    [] url = UrlG -> ParsedG
    [] url = UrlD -> ParsedD

\* fetchWithTimeout and parseFeed succeeded for the pending entry
FetchResolved(b) ==
  /\ pc = "aggregating"
  /\ bucket[b].status = "fetching"
  /\ LET st   == bucket[b]
         i    == st.pending
         url  == entryUrl(sources[b][i])
     IN  /\ canFetch(url)
         /\ \E tickAfter \in 0..MaxTick :
              LET st1 == [ st EXCEPT !.all = @ \o parsedFeedAt(url) ]
                  st2 == aggregateBucketFrom(st1, sources[b], i + 1, clock, tickAfter)
              IN  /\ bucket' = [bucket EXCEPT ![b] = st2]
                  /\ clock' = IF st2.status = "done" /\ tickAfter > 0
                              THEN clock + 1 ELSE clock
  /\ UNCHANGED <<pc, exitCode, sources, files>>
  /\ UNCHANGED textVars

\* fetch rejected (network error, HTTP status, abort on timeout, bad URL)
FetchRejected(b) ==
  /\ pc = "aggregating"
  /\ bucket[b].status = "fetching"
  /\ LET st == bucket[b]
         i  == st.pending
     IN  \E tickAfter \in 0..MaxTick :
           LET st1 == [ st EXCEPT !.failed = @ \cup {i} ]
               st2 == aggregateBucketFrom(st1, sources[b],
                        indexAfterFailure(sources[b], i), clock, tickAfter)
           IN  /\ bucket' = [bucket EXCEPT ![b] = st2]
               /\ clock' = IF st2.status = "done" /\ tickAfter > 0
                           THEN clock + 1 ELSE clock
  /\ UNCHANGED <<pc, exitCode, sources, files>>
  /\ UNCHANGED textVars

\* a mutant: the file written last is listed first
writeJsonFirst(fs, outPath, data, ok) ==
  <<[ path |-> outPath, data |-> data, ok |-> ok ]>> \o fs

\* writeJson(outPath, data): ok tells whether writeFileSync returned
writeJson(fs, outPath, data, ok) ==
  Append(fs, [ path |-> outPath, data |-> data, ok |-> ok ])

\* main after Promise.all: the two writes, in order; a write that throws
\* rejects main, and main().catch sets the exit code
MainWrite ==
  /\ pc = "aggregating"
  /\ \A b \in Buckets : bucket[b].status = "done"
  /\ \E io \in {"ok", "czWriteFails", "intlWriteFails"} :
       /\ files' =
            LET f1 == writeJson(files, "data/cz.json", bucket["cz"].out,
                                io # "czWriteFails")
            IN  IF io = "czWriteFails" THEN f1
                ELSE writeJson(f1, "data/intl.json", bucket["intl"].out,
                               io # "intlWriteFails")
       /\ pc' = IF io = "ok" THEN "done" ELSE "failed"
       /\ exitCode' = IF io = "ok" THEN exitCode ELSE 1
  /\ UNCHANGED <<sources, bucket, clock>>
  /\ UNCHANGED textVars

Init ==
  /\ MainIdle
  /\ tIn = <<>>
  /\ tOnce = <<>>
  /\ tTwice = <<>>
  /\ tStage = "idle"
  /\ kwOut = "unset"
  /\ keptOut = "unset"

Next ==
  \/ MainStart
  \/ \E b \in Buckets : FetchResolved(b)
  \/ \E b \in Buckets : FetchRejected(b)
  \/ MainWrite

Spec == Init /\ [][Next]_vars

(***************************************************************************)
(* The text functions applied to bounded inputs                            *)
(***************************************************************************)
MaxTokens == 3
MaxWords == 2

MarkupTokens ==
  { <<"&","a","m","p",";">>, <<"a","m","p",";">>, <<"&","l","t",";">>,
    <<"&","g","t",";">>, <<"&","#","3","9",";">>, <<"b">>, <<" ">>,
    CdataOpen, CdataClose }

Words ==
  { <<"T","e","m","u">>, <<"W","I","S","H">>, <<"P","A","D","U+011A","L","E","K">>,
    <<"r","e","c","a","l","l">>, <<"e","s","h","o","p">>,
    <<"F","a","s","t"," ","F","a","s","h","i","o","n">>,
    <<"n","e","w","s">>, <<"t","o","x","i","c">> }

RECURSIVE joinAll(_, _)
joinAll(parts, sep) ==
  IF parts = <<>> THEN <<>>
  ELSE IF Len(parts) = 1 THEN parts[1]
  ELSE parts[1] \o sep \o joinAll(Tail(parts), sep)

TextInputs ==
  { joinAll(ts, <<>>) : ts \in UNION { [1..n -> MarkupTokens] : n \in 0..MaxTokens } }
    \cup
  { joinAll(ws, <<" ">>) : ws \in UNION { [1..n -> Words] : n \in 0..MaxWords } }

TextInit ==
  /\ tIn \in TextInputs
  /\ tStage = "raw"
  /\ tOnce = <<>>
  /\ tTwice = <<>>
  /\ kwOut = "unset"
  /\ keptOut = "unset"
  /\ MainIdle

Normalize ==
  /\ tStage = "raw"
  /\ tOnce' = normalizeText(tIn)
  /\ tStage' = "once"
  /\ UNCHANGED <<tIn, tTwice, kwOut, keptOut>>
  /\ UNCHANGED mainVars

NormalizeAgain ==
  /\ tStage = "once"
  /\ tTwice' = normalizeText(tOnce)
  /\ tStage' = "twice"
  /\ UNCHANGED <<tIn, tOnce, kwOut, keptOut>>
  /\ UNCHANGED mainVars

Match ==
  /\ tStage = "twice"
  /\ kwOut' = IF matchesKeywords(tIn) THEN "yes" ELSE "no"
  /\ tStage' = "matched"
  /\ UNCHANGED <<tIn, tOnce, tTwice, keptOut>>
  /\ UNCHANGED mainVars

\* a candidate as parseRssItems builds it from a block whose title is tIn
candidateOf(text) ==
  rssItem([ title |-> text,
            link  |-> <<"h","t","t","p","s",":","/","/","x">>,
            date  |-> <<>>,
            body  |-> <<>> ], <<"s">>)

Filter ==
  /\ tStage = "matched"
  /\ keptOut' = IF normalizeAndFilter(<<candidateOf(tIn)>>, 0, 0) # <<>>
                THEN "yes" ELSE "no"
  /\ tStage' = "filtered"
  /\ UNCHANGED <<tIn, tOnce, tTwice, kwOut>>
  /\ UNCHANGED mainVars

TextNext == Normalize \/ NormalizeAgain \/ Match \/ Filter

SpecText == TextInit /\ [][TextNext]_vars

(***************************************************************************)
(* What the claims speak of                                                *)
(***************************************************************************)
Done(b) == bucket[b].status = "done"

\* some term of the tier occurs in the lower-cased text
hasTerm(lowered, tier) ==
  \E i \in 1..Len(tier) : includes(lowered, tier[i])

\* the relevance rule: a brand term, or a topic term and a context term
Relevant(text) ==
  LET lowered == toLowerCase(text)
  IN  \/ hasTerm(lowered, BRAND_KEYWORDS)
      \/ hasTerm(lowered, TOPIC_KEYWORDS) /\ hasTerm(lowered, CONTEXT_KEYWORDS)

\* the candidates of the pool that have a title, a url and are relevant
Candidates(pool) ==
  { i \in 1..Len(pool) :
      /\ pool[i].title # <<>>
      /\ pool[i].url # <<>>
      /\ Relevant(IF pool[i].search # <<>> THEN pool[i].search
                  ELSE pool[i].title) }

\* those that are the first candidate with their url in pool order
FirstCandidates(pool) ==
  LET c == Candidates(pool)
  IN  { i \in c : \A j \in c : pool[j].url = pool[i].url => j >= i }

outUrls(b) == { bucket[b].out[p].url : p \in 1..Len(bucket[b].out) }

\* the instant of an ISO string, NaN when it is none
instant(iso) == IF Len(iso) = 4 + Len(IsoSuffix) THEN dateParse(iso) ELSE NaN

\* C1: no two items of a bucket output have the same url, and the item with
\* a url is the first candidate with that url in pool order (its title and
\* source, and its date when it has one), whatever the later ones are dated
C1_FirstOccurrenceSurvives ==
  \A b \in Buckets :
    Done(b) =>
      LET pool  == bucket[b].all
          out   == bucket[b].out
          first == FirstCandidates(pool)
      IN  /\ \A p, q \in 1..Len(out) : out[p].url = out[q].url => p = q
          /\ \A p \in 1..Len(out) :
               \E i \in first :
                 /\ pool[i].url = out[p].url
                 /\ pool[i].title = out[p].title
                 /\ pool[i].source = out[p].source
                 /\ pool[i].publishedAt # <<>>
                      => pool[i].publishedAt = out[p].publishedAt

\* a later candidate has the url of an output item and a more recent date
C1_Witness ==
  \E b \in Buckets :
    /\ Done(b)
    /\ \E p \in 1..Len(bucket[b].out) :
         \E j \in Candidates(bucket[b].all) :
           /\ bucket[b].all[j].url = bucket[b].out[p].url
           /\ bucket[b].all[j].title # bucket[b].out[p].title
           /\ instant(bucket[b].all[j].publishedAt) # NaN
           /\ instant(bucket[b].all[j].publishedAt)
                > instant(bucket[b].out[p].publishedAt)

\* C2: a bucket output has at most MAX_ITEMS_PER_BUCKET items, and the
\* instant of publishedAt never increases from one item to the next
C2_CappedAndSorted ==
  \A b \in Buckets :
    Done(b) =>
      LET out == bucket[b].out
      IN  /\ Len(out) <= MAX_ITEMS_PER_BUCKET
          /\ \A p \in 1..(Len(out) - 1) :
               /\ instant(out[p].publishedAt) # NaN
               /\ instant(out[p + 1].publishedAt) # NaN
               /\ instant(out[p].publishedAt) >= instant(out[p + 1].publishedAt)

\* a full output cut from a larger pool that was not in date order
C2_Witness ==
  \E b \in Buckets :
    /\ Done(b)
    /\ Len(bucket[b].out) = MAX_ITEMS_PER_BUCKET
    /\ Cardinality(FirstCandidates(bucket[b].all)) > MAX_ITEMS_PER_BUCKET
    /\ \E i, j \in FirstCandidates(bucket[b].all) :
         /\ i < j
         /\ instant(bucket[b].all[i].publishedAt) # NaN
         /\ instant(bucket[b].all[i].publishedAt)
              < instant(bucket[b].all[j].publishedAt)

\* C3: every item of a bucket output has a non-empty title, a url that
\* matches ^https?://, a non-empty source name and a publishedAt that is a
\* valid ISO-8601 instant
C3_ItemsWellFormed ==
  \A b \in Buckets :
    Done(b) =>
      \A p \in 1..Len(bucket[b].out) :
        LET x == bucket[b].out[p]
        IN  /\ x.title # <<>>
            /\ \/ startsWith(x.url, <<"h","t","t","p",":","/","/">>)
               \/ startsWith(x.url, <<"h","t","t","p","s",":","/","/">>)
            /\ x.source # <<>>
            /\ instant(x.publishedAt) # NaN
\* the pool of a list every fetch of which succeeds
RECURSIVE poolOf(_)
poolOf(list) ==
  IF list = <<>> THEN <<>>
  ELSE (IF entryUrl(Head(list)) # <<>> THEN parsedFeedAt(entryUrl(Head(list)))
        ELSE <<>>) \o poolOf(Tail(list))

\* the list without the entries at the indices in drop
without(list, drop) ==
  LET kept == SelectSeq(indices(Len(list)), LAMBDA i : i \notin drop)
  IN  SubSeq([ k \in 1..Len(kept) |-> list[kept[k]] ], 1, Len(kept))

\* C4: the pool of a bucket holds every item of every source whose fetch did
\* not fail, and the bucket output is the output of the source list with the
\* failing sources removed
C4_FailuresIsolated ==
  \A b \in Buckets :
    Done(b) =>
      LET rest == poolOf(without(sources[b], bucket[b].failed))
      IN  /\ bucket[b].all = rest
          /\ bucket[b].out =
               normalizeAndFilter(rest, bucket[b].now, bucket[b].tickAfter)

\* a fetch failed, a later source of the same bucket was fetched, and its
\* items are in the output
C4_Witness ==
  \E b \in Buckets :
    /\ Done(b)
    /\ bucket[b].out # <<>>
    /\ \E i \in bucket[b].failed :
         \E k \in 1..Len(bucket[b].fetched) :
           /\ bucket[b].fetched[k].index > i
           /\ bucket[b].fetched[k].index \notin bucket[b].failed

\* the word sequences the inputs of the text functions are joined from
WordSeqs == UNION { [1..n -> Words] : n \in 0..MaxWords }

BrandWords == { <<"T","e","m","u">>, <<"W","I","S","H">> }
TopicWords == { <<"P","A","D","U+011A","L","E","K">>, <<"r","e","c","a","l","l">>,
                <<"t","o","x","i","c">> }
ContextWords == { <<"e","s","h","o","p">>,
                  <<"F","a","s","t"," ","F","a","s","h","i","o","n">> }

uses(ws, tier) == \E k \in 1..Len(ws) : ws[k] \in tier

\* C5: matchesKeywords accepts a text exactly when it holds a brand term, or
\* a topic term and a context term (context alone and topic alone are
\* rejected), and normalizeAndFilter keeps a candidate only if its search
\* text is accepted
C5_RelevanceRule ==
  /\ tStage \in {"matched", "filtered"} =>
       /\ (kwOut = "yes") <=> Relevant(tIn)
       /\ \A ws \in WordSeqs :
            joinAll(ws, <<" ">>) = tIn =>
              ((kwOut = "yes") <=>
                 \/ uses(ws, BrandWords)
                 \/ uses(ws, TopicWords) /\ uses(ws, ContextWords))
  /\ tStage = "filtered" =>
       ((keptOut = "yes") => Relevant(candidateOf(tIn).search))

\* a topic term with a context term is accepted and kept, in upper case too
C5_Witness ==
  /\ tStage = "filtered"
  /\ tIn = <<"P","A","D","U+011A","L","E","K">> \o <<" ">>
             \o <<"F","a","s","t"," ","F","a","s","h","i","o","n">>
  /\ kwOut = "yes"
  /\ keptOut = "yes"

\* C6: normalizeText is idempotent
C6_NormalizeIdempotent ==
  tStage \in {"twice", "matched", "filtered"} => tTwice = tOnce

\* the instant the run resolves for candidate i, one of the first
\* candidates `first` of the pool of bucket b
resolvedInstant(b, first, i) ==
  IF bucket[b].all[i].publishedAt # <<>>
  THEN instant(bucket[b].all[i].publishedAt)
  ELSE clockReading(bucket[b].now, bucket[b].tickAfter,
                    Cardinality({ j \in first : j <= i }))

\* the least instant of the items of a sequence
leastInstant(items) ==
  CHOOSE t \in { instant(items[p].publishedAt) : p \in 1..Len(items) } :
    \A p \in 1..Len(items) : t <= instant(items[p].publishedAt)

\* C7: with more than MAX_ITEMS_PER_BUCKET relevant items of distinct urls,
\* the output has exactly MAX_ITEMS_PER_BUCKET items, and no item left out
\* has a resolved instant later than an item kept
C7_MostRecentKept ==
  \A b \in Buckets :
    Done(b) =>
      LET first == FirstCandidates(bucket[b].all)
          urls  == outUrls(b)
      IN  Cardinality(first) > MAX_ITEMS_PER_BUCKET =>
            /\ Len(bucket[b].out) = MAX_ITEMS_PER_BUCKET
            /\ LET least == leastInstant(bucket[b].out)
               IN  \A i \in first :
                     bucket[b].all[i].url \notin urls =>
                       resolvedInstant(b, first, i) <= least

\* an item is left out although it comes before a kept, more recent one in
\* the pool
C7_Witness ==
  \E b \in Buckets :
    /\ Done(b)
    /\ LET first == FirstCandidates(bucket[b].all)
           urls  == outUrls(b)
       IN  /\ Cardinality(first) > MAX_ITEMS_PER_BUCKET
           /\ \E i, j \in first :
                /\ i < j
                /\ j > MAX_ITEMS_PER_BUCKET
                /\ bucket[b].all[i].url \notin urls
                /\ bucket[b].all[j].url \in urls
                /\ resolvedInstant(b, first, i) < resolvedInstant(b, first, j)

\* the loop of bucket b has dealt with entry i
Reached(b, i) ==
  \/ Done(b)
  \/ bucket[b].status = "fetching" /\ i <= bucket[b].pending

fetchAttempted(b, i, url) ==
  \E k \in 1..Len(bucket[b].fetched) :
    bucket[b].fetched[k] = [ index |-> i, url |-> url ]

\* C8 as claimed: a fetch is attempted for every entry that is a bare URL
\* string or an object with a non-empty `url` field
C8_UrlFieldFetched ==
  \A b \in Buckets :
    \A i \in 1..Len(sources[b]) :
      LET e == sources[b][i]
      IN  /\ Reached(b, i)
          /\ \/ e.type = "string" /\ e.value # <<>>
             \/ e.type = "object" /\ e.url # <<>>
          => fetchAttempted(b, i, IF e.type = "string" THEN e.value ELSE e.url)

\* C8: a fetch is attempted for every entry that is a non-empty string or an
\* object with a non-empty `rss` field, of that string or field; every other
\* entry, an object with only a `url` field among them, is skipped
C8_RssFieldFetched ==
  \A b \in Buckets :
    \A i \in 1..Len(sources[b]) :
      LET e == sources[b][i]
      IN  Reached(b, i) =>
            IF \/ e.type = "string" /\ e.value # <<>>
               \/ e.type = "object" /\ e.rss # <<>>
            THEN /\ fetchAttempted(b, i, IF e.type = "string" THEN e.value ELSE e.rss)
                 /\ i \notin bucket[b].skipped
            ELSE /\ i \in bucket[b].skipped
                 /\ \A k \in 1..Len(bucket[b].fetched) :
                      bucket[b].fetched[k].index # i

\* an object with `rss` was fetched and an object with only `url` skipped
C8_Witness ==
  \E b \in Buckets :
    /\ Done(b)
    /\ \E i, j \in 1..Len(sources[b]) :
         /\ sources[b][i].type = "object" /\ sources[b][i].rss # <<>>
         /\ fetchAttempted(b, i, sources[b][i].rss)
         /\ sources[b][j].type = "object" /\ sources[b][j].url # <<>>
         /\ j \in bucket[b].skipped

ConfigUnusable ==
  \/ sources.load \in {"unreadable", "unparsable"}
  \/ sources.load = "ok" /\ Len(sources.cz) = 0 /\ Len(sources.intl) = 0

\* a failure that is neither of the configuration nor of a feed
TopLevelFailure ==
  \/ sources.load = "null"
  \/ \E k \in 1..Len(files) : ~files[k].ok

\* C9: the exit status is non-zero when the configuration cannot be read or
\* parsed or both lists are empty, and zero when the only failures are
\* failures of feeds; a run that ends then has written both outputs
C9_ExitStatus ==
  pc # "start" =>
    /\ ConfigUnusable => (exitCode # 0 /\ pc = "failed" /\ files = <<>>)
    /\ (~ConfigUnusable /\ ~TopLevelFailure) => exitCode = 0
    /\ pc = "done" =>
         /\ exitCode = 0
         /\ files = << [ path |-> "data/cz.json", data |-> bucket["cz"].out,
                         ok |-> TRUE ],
                       [ path |-> "data/intl.json", data |-> bucket["intl"].out,
                         ok |-> TRUE ] >>

\* one source failed, another of the same bucket gave items, both outputs
\* are written and the exit status is 0
C9_Witness ==
  /\ pc = "done"
  /\ exitCode = 0
  /\ Len(files) = 2
  /\ \E b \in Buckets : bucket[b].failed # {} /\ bucket[b].out # <<>>

\* C10: a relevant, valid candidate without a parseable date is not dropped
\* for it: it is in the output unless MAX_ITEMS_PER_BUCKET items rank before
\* it, and its publishedAt there is the clock's instant when it was pushed
C10_UndatedGetsNow ==
  \A b \in Buckets :
    Done(b) =>
      LET pool  == bucket[b].all
          out   == bucket[b].out
          first == FirstCandidates(pool)
          urls  == outUrls(b)
      IN  \A i \in first :
            pool[i].publishedAt = <<>> =>
              LET t == resolvedInstant(b, first, i)
              IN  /\ Cardinality(first) <= MAX_ITEMS_PER_BUCKET
                       => pool[i].url \in urls
                  /\ t \in { bucket[b].now, bucket[b].now + 1 }
                  /\ t <= clock
                  /\ \A p \in 1..Len(out) :
                       out[p].url = pool[i].url
                         => out[p].publishedAt = toISOString(t)

\* the item whose date is "not-a-date" is in the output, dated now
C10_Witness ==
  \E b \in Buckets :
    /\ Done(b)
    /\ \E p \in 1..Len(bucket[b].out) :
         /\ bucket[b].out[p].title = <<"T","o","x","i","c">>
         /\ bucket[b].out[p].publishedAt = toISOString(bucket[b].now)

\* the first candidate of the pool of bucket b that the output item x is
\* made from
candidateAt(b, x) ==
  CHOOSE i \in FirstCandidates(bucket[b].all) : bucket[b].all[i].url = x.url

\* C11: in a bucket output, an item whose feed date was not parseable is
\* placed after every item whose feed date is a parseable instant later than
\* the Unix epoch
C11_UndatedSortsAsEpoch ==
  \A b \in Buckets :
    Done(b) =>
      LET out == bucket[b].out
      IN  \A p, q \in 1..Len(out) :
            LET u == bucket[b].all[candidateAt(b, out[p])]
                d == bucket[b].all[candidateAt(b, out[q])]
            IN  ( /\ u.publishedAt = <<>>
                  /\ d.publishedAt # <<>>
                  /\ instant(d.publishedAt) > 0 )
                => q < p

\* what holds of the files written in every state of a run
WritesInOrder ==
  /\ pc = "aggregating" => \A b \in Buckets : bucket[b].status # "idle"
  /\ files # <<>> => \A b \in Buckets : Done(b)
  /\ Len(files) <= 2
  /\ Len(files) >= 1 =>
       /\ files[1].path = "data/cz.json"
       /\ files[1].data = bucket["cz"].out
  /\ Len(files) = 2 =>
       /\ files[1].ok
       /\ files[2].path = "data/intl.json"
       /\ files[2].data = bucket["intl"].out
  /\ ConfigUnusable => files = <<>>

\* a step that writes a file starts where both aggregations have returned
WriteStep ==
  files' # files =>
    /\ \A b \in Buckets : Done(b)
    /\ bucket' = bucket

\* C12: both aggregations are started before main waits, no file is written
\* before both have returned, the files are written cz first and intl second,
\* and no file is written when the configuration is unreadable, unparsable
\* or holds no source
C12_WritesAfterBoth == []WritesInOrder /\ [][WriteStep]_vars

\* both buckets fetched feeds, they returned at different instants, and both
\* files were written
C12_Witness ==
  /\ pc = "done"
  /\ Len(files) = 2
  /\ files[1].ok /\ files[2].ok
  /\ \A b \in Buckets : bucket[b].fetched # <<>>
  /\ bucket["cz"].now # bucket["intl"].now

====
